---------------------------- MODULE Spec2Model ----------------------------
(***************************************************************************)
(* Model of plugins/configs/api/controller.go: the plugin lifecycle        *)
(* manager (Create / Update / Delete / Status / ListRunning and the hook   *)
(* registry) and the reflection-driven binding engine below it (field      *)
(* resolver, value coercer, schema deriver, value extractor).              *)
(*                                                                         *)
(* Strings that the code takes apart (field names, tags, external names)   *)
(* are sequences of one-character strings.  Go values are records          *)
(* [k |-> kind, v |-> payload]; Go types are records                       *)
(* [kind, tname, elem, fields].  Durations are counted in milliseconds.    *)
(***************************************************************************)
EXTENDS Integers, Sequences, FiniteSets, TLC

(***************************************************************************)
(* Characters and strings                                                  *)
(***************************************************************************)
UpperSeq == <<"A","B","C","D","E","F","G","H","I","J","K","L","M",
              "N","O","P","Q","R","S","T","U","V","W","X","Y","Z">>
LowerSeq == <<"a","b","c","d","e","f","g","h","i","j","k","l","m",
              "n","o","p","q","r","s","t","u","v","w","x","y","z">>
DigitSeq == <<"0","1","2","3","4","5","6","7","8","9">>
\* byte order of the characters used, as sort.Strings compares them
AsciiSeq == <<"-">> \o DigitSeq \o UpperSeq \o <<"_">> \o LowerSeq

Range(s) == { s[i] : i \in DOMAIN s }
IsUpper(c) == c \in Range(UpperSeq)
IsLower(c) == c \in Range(LowerSeq)
IsDigit(c) == c \in Range(DigitSeq)
Ord(c) == CHOOSE i \in DOMAIN AsciiSeq : AsciiSeq[i] = c
ToLowerChar(c) ==
    IF IsUpper(c) THEN LowerSeq[CHOOSE i \in DOMAIN UpperSeq : UpperSeq[i] = c]
    ELSE c
ToLower(s) == [i \in DOMAIN s |-> ToLowerChar(s[i])]

\* strict byte-wise lexicographic order on strings
RECURSIVE StrLess(_, _)
StrLess(a, b) ==
    IF b = <<>> THEN FALSE
    ELSE IF a = <<>> THEN TRUE
    ELSE IF a[1] # b[1] THEN Ord(a[1]) < Ord(b[1])
    ELSE StrLess(Tail(a), Tail(b))

RECURSIVE SortStrings(_)
SortStrings(S) ==
    IF S = {} THEN <<>>
    ELSE LET m == CHOOSE x \in S : \A y \in S \ {x} : StrLess(x, y)
         IN  <<m>> \o SortStrings(S \ {m})

\* matchFirstCapital "(.)([A-Z][a-z]+)" replaced by "${1}_${2}", leftmost
\* non-overlapping matches, the run of lower-case letters taken greedily
RECURSIVE LowerRunEnd(_, _)
LowerRunEnd(s, j) ==
    IF j + 1 <= Len(s) /\ IsLower(s[j + 1]) THEN LowerRunEnd(s, j + 1) ELSE j

RECURSIVE ReplaceFirstCapital(_, _)
ReplaceFirstCapital(s, i) ==
    IF i > Len(s) THEN <<>>
    ELSE IF i + 2 <= Len(s) /\ IsUpper(s[i + 1]) /\ IsLower(s[i + 2])
         THEN LET j == LowerRunEnd(s, i + 2)
              IN  <<s[i], "_">> \o SubSeq(s, i + 1, j) \o ReplaceFirstCapital(s, j + 1)
         ELSE <<s[i]>> \o ReplaceFirstCapital(s, i + 1)

\* matchAllCapitals "([a-z0-9])([A-Z])" replaced by "${1}_${2}"
RECURSIVE ReplaceAllCapitals(_, _)
ReplaceAllCapitals(s, i) ==
    IF i > Len(s) THEN <<>>
    ELSE IF i + 1 <= Len(s) /\ (IsLower(s[i]) \/ IsDigit(s[i])) /\ IsUpper(s[i + 1])
         THEN <<s[i], "_", s[i + 1]>> \o ReplaceAllCapitals(s, i + 2)
         ELSE <<s[i]>> \o ReplaceAllCapitals(s, i + 1)

(***************************************************************************)
(* Go types and values as reflect sees them                                *)
(***************************************************************************)
T(kind, tname) == [kind |-> kind, tname |-> tname, elem |-> <<>>, fields |-> <<>>]
TBool     == T("bool", "bool")
TString   == T("string", "string")
TInt      == T("int", "int")
TInt8     == T("int8", "int8")
TFloat64  == T("float64", "float64")
TDuration == T("int64", "config.Duration")
TSize     == T("int64", "config.Size")
TIface    == T("interface", "interface {}")
TChan     == T("chan", "chan int")
TPtr(t)   == [kind |-> "ptr", tname |-> "*", elem |-> <<t>>, fields |-> <<>>]
TSlice(t) == [kind |-> "slice", tname |-> "[]", elem |-> <<t>>, fields |-> <<>>]
TMap(t)   == [kind |-> "map", tname |-> "map[string]", elem |-> <<t>>, fields |-> <<>>]
TStruct(tname, fields) ==
    [kind |-> "struct", tname |-> tname, elem |-> <<>>, fields |-> fields]

\* a struct field: its declared name, its toml tag (if any), whether it is
\* anonymously embedded, and its type
Fld(name, type) ==
    [Name |-> name, hasTag |-> FALSE, tag |-> <<>>, Anonymous |-> FALSE, Type |-> type]
Tagged(name, tag, type) ==
    [Name |-> name, hasTag |-> TRUE, tag |-> tag, Anonymous |-> FALSE, Type |-> type]
Embedded(name, type) ==
    [Name |-> name, hasTag |-> FALSE, tag |-> <<>>, Anonymous |-> TRUE, Type |-> type]

IntKinds   == {"int", "int8", "int16", "int32", "int64"}
UintKinds  == {"uint", "uint8", "uint16", "uint32", "uint64"}
FloatKinds == {"float32", "float64"}
Elem(t) == t.elem[1]

V(k, v) == [k |-> k, v |-> v]
VNil == V("invalid", 0)
VPtrNil == V("ptr", <<>>)
VPtr(x) == V("ptr", <<x>>)
\* the kind tag a value of type t carries
ValueKind(t) ==
    IF t.kind \in IntKinds THEN "int"
    ELSE IF t.kind \in UintKinds THEN "uint"
    ELSE IF t.kind \in FloatKinds THEN "float"
    ELSE t.kind

RECURSIVE Zero(_)
Zero(t) ==
    CASE t.kind = "bool" -> V("bool", FALSE)
      [] t.kind = "string" -> V("string", "")
      [] t.kind \in IntKinds \cup UintKinds \cup FloatKinds -> V(ValueKind(t), 0)
      [] t.kind = "ptr" -> VPtrNil
      [] t.kind = "slice" -> V("slice", <<>>)
      [] t.kind = "map" -> V("map", <<>>)
      [] t.kind = "struct" -> V("struct", [i \in DOMAIN t.fields |-> Zero(t.fields[i].Type)])
      [] OTHER -> V(t.kind, <<>>)

(***************************************************************************)
(* Naming convention and field resolution                                  *)
(***************************************************************************)
isExported(ft) == IsUpper(ft.Name[1])

TagGet(ft) == IF ft.hasTag THEN ft.tag ELSE <<>>

toSnakeCase(str, sf) ==
    IF sf.hasTag
    THEN IF sf.tag = <<"-">> THEN [result |-> <<>>, ok |-> FALSE]
         ELSE [result |-> sf.tag, ok |-> TRUE]
    ELSE [result |-> ToLower(ReplaceAllCapitals(ReplaceFirstCapital(str, 1), 1)),
          ok |-> TRUE]

NotFoundSlot == [st |-> "none", path |-> <<>>, canSet |-> FALSE]

\* the two match tests of the resolver's loop body for field ft
FieldMatches(ft, fieldName) ==
    \/ TagGet(ft) = fieldName
    \/ LET n == toSnakeCase(ft.Name, ft)
       IN  n.ok /\ n.result = fieldName /\ isExported(ft)

\* getFieldByName over the fields i.. of a struct of type st.  ro: the struct
\* value was reached through an unexported field.  Result: st = "found" with
\* the path of field indices to the slot, "none", or "panic".
RECURSIVE getFieldByNameFrom(_, _, _, _)
getFieldByNameFrom(st, fieldName, ro, i) ==
    IF ro THEN [st |-> "panic", path |-> <<>>, canSet |-> FALSE]
    ELSE IF i > Len(st.fields) THEN NotFoundSlot
    ELSE LET ft == st.fields[i]
             sub == IF ft.Type.kind = "struct" /\ ft.Anonymous
                    THEN getFieldByNameFrom(ft.Type, fieldName, ~isExported(ft), 1)
                    ELSE NotFoundSlot
         IN  IF sub.st = "panic" THEN sub
             ELSE IF sub.st = "found"
             THEN [sub EXCEPT !.path = <<i>> \o sub.path]
             ELSE IF FieldMatches(ft, fieldName)
             THEN [st |-> "found", path |-> <<i>>, canSet |-> isExported(ft)]
             ELSE getFieldByNameFrom(st, fieldName, ro, i + 1)

getFieldByName(st, fieldName) == getFieldByNameFrom(st, fieldName, FALSE, 1)

RECURSIVE TypeAt(_, _)
TypeAt(st, path) ==
    IF Len(path) = 1 THEN st.fields[path[1]].Type
    ELSE TypeAt(st.fields[path[1]].Type, Tail(path))

RECURSIVE FieldAt(_, _)
FieldAt(st, path) ==
    IF Len(path) = 1 THEN st.fields[path[1]]
    ELSE FieldAt(st.fields[path[1]].Type, Tail(path))

RECURSIVE ValueAt(_, _)
ValueAt(sv, path) ==
    IF path = <<>> THEN sv ELSE ValueAt(sv.v[path[1]], Tail(path))

RECURSIVE SetAt(_, _, _)
SetAt(sv, path, x) ==
    IF path = <<>> THEN x
    ELSE V("struct", [sv.v EXCEPT ![path[1]] = SetAt(sv.v[path[1]], Tail(path), x)])

(***************************************************************************)
(* Text forms of the domain scalars.  Durations are in milliseconds.       *)
(***************************************************************************)
\* time.ParseDuration on the literals used; any other text fails to parse
DurationLiterals ==
    [text : {"30s"}, ms : {30000}] \cup [text : {"500ms"}, ms : {500}]
    \cup [text : {"1h30m", "1h30m0s"}, ms : {5400000}] \cup [text : {"0s"}, ms : {0}]
ParseDuration(s) ==
    IF \E l \in DurationLiterals : l.text = s
    THEN [ok |-> TRUE, n |-> (CHOOSE l \in DurationLiterals : l.text = s).ms]
    ELSE [ok |-> FALSE, n |-> 0]
\* time.Duration.String
DurationString(n) ==
    CASE n = 0 -> "0s"
      [] n = 100 -> "100ms"
      [] n = 300 -> "300ms"
      [] n = 500 -> "500ms"
      [] n = 30000 -> "30s"
      [] n = 5400000 -> "1h30m0s"
      [] OTHER -> "?"

\* units.ParseStrictBytes on the literals used
SizeLiterals == [text : {"1KiB"}, n : {1024}] \cup [text : {"64MB"}, n : {64000000}]
ParseStrictBytes(s) ==
    IF \E l \in SizeLiterals : l.text = s
    THEN [ok |-> TRUE, n |-> (CHOOSE l \in SizeLiterals : l.text = s).n]
    ELSE [ok |-> FALSE, n |-> 0]
\* config.Size.MarshalText
SizeMarshalText(n) ==
    CASE n = 0 -> "0B"
      [] n = 1024 -> "1KiB"
      [] n = 64000000 -> "64MB"
      [] OTHER -> "?"

(***************************************************************************)
(* Value coercion and binding                                              *)
(***************************************************************************)
\* the Go type of an untyped source value of kind k
SourceTypeName(k) ==
    CASE k = "bool" -> "bool"
      [] k = "string" -> "string"
      [] k = "int" -> "int"
      [] k = "uint" -> "uint"
      [] k = "float" -> "float64"
      [] k = "slice" -> "[]interface {}"
      [] k = "map" -> "map[string]interface {}"
      [] OTHER -> "nil"

\* reflect's assignability of a source value to a slot of type t
Assignable(from, t) == t.kind = "interface" \/ t.tname = SourceTypeName(from.k)

\* SetInt / SetUint keep the low bits of narrow kinds
Narrow(kind, n) ==
    CASE kind = "int8" -> ((n + 128) % 256) - 128
      [] kind = "int16" -> ((n + 32768) % 65536) - 32768
      [] kind = "uint8" -> n % 256
      [] kind = "uint16" -> n % 65536
      [] OTHER -> n

Res(st, val) == [st |-> st, val |-> val, field |-> <<>>]
Wrap(isPtr, x) == IF isPtr THEN VPtr(x) ELSE x

RECURSIVE setObject(_, _, _, _)
RECURSIVE setFieldConfigKeys(_, _, _, _)

\* a binder that takes the names in descending order
RECURSIVE Descending(_)
Descending(q) == IF q = <<>> THEN <<>> ELSE Descending(Tail(q)) \o <<Head(q)>>

setFieldConfigDescending(cfg, sv, st) ==
    setFieldConfigKeys(cfg, sv, st, Descending(SortStrings(DOMAIN cfg)))

\* setFieldConfig on a struct value sv of type st
setFieldConfig(cfg, sv, st) == setFieldConfigKeys(cfg, sv, st, SortStrings(DOMAIN cfg))

\* scalar sources: bool, uint and float share the shape "deref, then
\* interface -> Set, else Set<Kind>"
SetScalar(from, to, destType, canSet, okKinds) ==
    LET isPtr == destType.kind = "ptr"
        slotT == IF isPtr THEN Elem(destType) ELSE destType
        fresh == IF isPtr THEN VPtr(Zero(slotT)) ELSE to
    IN  IF ~canSet THEN Res("panic", to)
        ELSE IF slotT.kind = "interface" THEN Res("ok", Wrap(isPtr, V("interface", <<from>>)))
        ELSE IF slotT.kind \in okKinds THEN Res("ok", Wrap(isPtr, V(from.k, Narrow(slotT.kind, from.v))))
        ELSE Res("panic", fresh)

SetBoolSource(from, to, destType, canSet) ==
    LET isPtr == destType.kind = "ptr"
        slotT == IF isPtr THEN Elem(destType) ELSE destType
        fresh == IF isPtr THEN VPtr(Zero(slotT)) ELSE to
    IN  IF ~canSet THEN Res("panic", to)
        ELSE IF slotT.kind = "interface" THEN Res("ok", Wrap(isPtr, V("interface", <<from>>)))
        ELSE IF slotT.kind = "bool" THEN Res("ok", Wrap(isPtr, from))
        ELSE Res("panic", fresh)

SetStringSource(from, to, destType, canSet) ==
    LET isPtr == destType.kind = "ptr"
        slotT == IF isPtr THEN Elem(destType) ELSE destType
        fresh == IF isPtr THEN VPtr(Zero(slotT)) ELSE to
    IN  IF ~canSet THEN Res("panic", to)
        ELSE IF slotT.tname \in {"time.Duration", "config.Duration"}
        THEN LET d == ParseDuration(from.v)
             IN  IF d.ok THEN Res("ok", Wrap(isPtr, V("int", d.n))) ELSE Res("err", fresh)
        ELSE IF slotT.tname = "config.Size"
        THEN LET z == ParseStrictBytes(from.v)
             IN  IF z.ok THEN Res("ok", Wrap(isPtr, V("int", z.n))) ELSE Res("err", fresh)
        ELSE IF slotT.kind = "interface" THEN Res("ok", Wrap(isPtr, V("interface", <<from>>)))
        ELSE IF Assignable(from, slotT) THEN Res("ok", Wrap(isPtr, from))
        ELSE Res("panic", fresh)

SetIntSource(from, to, destType, canSet) ==
    LET isPtr == destType.kind = "ptr"
        slotT == IF isPtr THEN Elem(destType) ELSE destType
        fresh == IF isPtr THEN VPtr(Zero(slotT)) ELSE to
    IN  IF ~canSet THEN Res("panic", to)
        ELSE IF slotT.kind \in UintKinds
        THEN Res("ok", Wrap(isPtr, V("uint", Narrow(slotT.kind, from.v))))
        ELSE IF slotT.kind \in IntKinds
        THEN Res("ok", Wrap(isPtr, V("int", Narrow(slotT.kind, from.v))))
        ELSE IF slotT.kind \in FloatKinds THEN Res("panic", fresh)
        ELSE IF slotT.kind = "interface" THEN Res("ok", Wrap(isPtr, V("interface", <<from>>)))
        ELSE Res("err", fresh)

\* the element loop of the slice case: d[i] for i in i..Len(from)
RECURSIVE SetSliceElems(_, _, _, _)
SetSliceElems(from, elemT, i, acc) ==
    IF i > Len(from) THEN Res("ok", V("slice", acc))
    ELSE LET r == setObject(from[i], Zero(elemT), elemT, TRUE)
         IN  IF r.st = "ok" THEN SetSliceElems(from, elemT, i + 1, Append(acc, r.val))
             ELSE Res(r.st, V("slice", acc))

SetSliceSource(from, to, destType, canSet) ==
    LET isPtr == destType.kind = "ptr"
        slotT == IF isPtr THEN Elem(destType) ELSE destType
    IN  IF slotT.kind # "slice" THEN Res("err", to)
        ELSE LET d == SetSliceElems(from.v, Elem(slotT), 1, <<>>)
             IN  IF d.st # "ok" THEN Res(d.st, to)
                 \* to.Elem() of a nil pointer is the zero Value: Set panics
                 ELSE IF isPtr THEN (IF to.v = <<>> THEN Res("panic", to)
                                     ELSE Res("ok", VPtr(d.val)))
                 ELSE IF ~canSet THEN Res("panic", to)
                 ELSE Res("ok", d.val)

\* the key loops of the map case, over the source keys still to be copied
\* (taken in sorted order); m is the destination map built so far
RECURSIVE SetMapScalars(_, _, _, _)
SetMapScalars(from, elemT, keys, m) ==
    IF keys = <<>> THEN Res("ok", V("map", m))
    ELSE LET k == keys[1]
             t == from[k]
         IN  IF t.k = "invalid"
             THEN SetMapScalars(from, elemT, Tail(keys), m)
             ELSE IF ~Assignable(t, elemT) THEN Res("panic", V("map", m))
             ELSE SetMapScalars(from, elemT, Tail(keys),
                      [x \in (DOMAIN m) \cup {k} |-> IF x = k THEN
                          (IF elemT.kind = "interface" THEN V("interface", <<t>>) ELSE t)
                          ELSE m[x]])

RECURSIVE SetMapSlices(_, _, _, _)
SetMapSlices(from, elemT, keys, m) ==
    IF keys = <<>> THEN Res("ok", V("map", m))
    ELSE LET k == keys[1]
             r == setObject(from[k], VPtr(Zero(elemT)), TPtr(elemT), FALSE)
         IN  IF r.st # "ok" THEN Res(r.st, V("map", m))
             ELSE SetMapSlices(from, elemT, Tail(keys),
                      [x \in (DOMAIN m) \cup {k} |-> IF x = k THEN r.val.v[1] ELSE m[x]])

RECURSIVE SetMapStructs(_, _, _, _)
SetMapStructs(from, elemT, keys, m) ==
    IF keys = <<>> THEN Res("ok", V("map", m))
    ELSE LET k == keys[1]
         IN  \* from.MapIndex(k).Interface().(map[string]interface{})
             IF from[k].k # "map" THEN Res("panic", V("map", m))
             ELSE LET r == setFieldConfig(from[k].v, Zero(elemT), elemT)
                  IN  IF r.st # "ok" THEN [r EXCEPT !.val = V("map", m)]
                      ELSE SetMapStructs(from, elemT, Tail(keys),
                               [x \in (DOMAIN m) \cup {k} |-> IF x = k THEN r.val ELSE m[x]])

ScalarKinds == IntKinds \cup UintKinds \cup FloatKinds \cup {"interface", "bool", "string"}

SetMapSource(from, to, destType, canSet) ==
    LET isPtr == destType.kind = "ptr"
        slotT == IF isPtr THEN Elem(destType) ELSE destType
        fresh == IF isPtr THEN VPtr(Zero(slotT)) ELSE to
        keys  == SortStrings(DOMAIN from.v)
    IN  IF isPtr /\ ~canSet THEN Res("panic", to)
        ELSE IF slotT.kind = "struct"
        THEN LET r == setFieldConfig(from.v, Zero(slotT), slotT)
             IN  IF r.st # "ok" THEN [r EXCEPT !.val = fresh]
                 ELSE IF ~canSet THEN Res("panic", to)
                 ELSE Res("ok", Wrap(isPtr, r.val))
        ELSE IF slotT.kind = "map"
        THEN LET ek == Elem(slotT).kind
                 r  == IF ek \in ScalarKinds
                       THEN SetMapScalars(from.v, Elem(slotT), keys, <<>>)
                       ELSE IF ek = "slice"
                       THEN SetMapSlices(from.v, Elem(slotT), keys, <<>>)
                       ELSE IF ek = "struct"
                       THEN SetMapStructs(from.v, Elem(slotT), keys, <<>>)
                       ELSE Res("err", V("map", <<>>))
             IN  IF ~canSet THEN Res("panic", to)
                 ELSE [r EXCEPT !.val = Wrap(isPtr, r.val)]
        ELSE Res("err", fresh)

\* setObject(from, to, destType); canSet: whether the slot `to` is settable
setObject(from, to, destType, canSet) ==
    CASE from.k = "bool" -> SetBoolSource(from, to, destType, canSet)
      [] from.k = "string" -> SetStringSource(from, to, destType, canSet)
      [] from.k = "int" -> SetIntSource(from, to, destType, canSet)
      [] from.k = "uint" -> SetScalar(from, to, destType, canSet, UintKinds)
      [] from.k = "float" -> SetScalar(from, to, destType, canSet, FloatKinds)
      [] from.k = "slice" -> SetSliceSource(from, to, destType, canSet)
      [] from.k = "map" -> SetMapSource(from, to, destType, canSet)
      [] OTHER -> Res("err", to)

\* the loop of setFieldConfig over the sorted keys still to be applied
setFieldConfigKeys(cfg, sv, st, keys) ==
    IF keys = <<>> THEN Res("ok", sv)
    ELSE LET k    == keys[1]
             slot == getFieldByName(st, k)
         IN  IF slot.st = "panic" THEN [st |-> "panic", val |-> sv, field |-> <<k>>]
             ELSE IF slot.st = "none" THEN setFieldConfigKeys(cfg, sv, st, Tail(keys))
             ELSE IF ~slot.canSet THEN [st |-> "err", val |-> sv, field |-> <<k>>]
             ELSE LET r == setObject(cfg[k], ValueAt(sv, slot.path), TypeAt(st, slot.path), TRUE)
                      nv == SetAt(sv, slot.path, r.val)
                  IN  IF r.st = "ok" THEN setFieldConfigKeys(cfg, nv, st, Tail(keys))
                      ELSE [st |-> r.st, val |-> nv, field |-> <<k>> \o r.field]

(***************************************************************************)
(* Value extraction                                                        *)
(***************************************************************************)
MapPut(m, k, x) == [y \in (DOMAIN m) \cup {k} |-> IF y = k THEN x ELSE m[y]]
Out(st, x) == [st |-> st, x |-> x]

RECURSIVE getFieldConfigValuesFromStructFrom(_, _, _, _)
RECURSIVE getFieldConfigValuesFromValue(_, _)
RECURSIVE setMapKey(_, _, _, _)
RECURSIVE getFieldConfigValuesFromMap(_, _, _, _)
RECURSIVE getFieldConfigValuesFromSlice(_, _, _, _)

\* getFieldConfigValuesFromStruct(p, cfg) for a struct value sv of type st;
\* byValue: p is the struct itself (IsZero looks at its fields), not a
\* non-nil pointer to it.  Result: the populated map, or a panic.
getFieldConfigValuesFromStruct(sv, st, byValue, cfg) ==
    IF byValue /\ sv = Zero(st) THEN Out("ok", cfg)
    ELSE getFieldConfigValuesFromStructFrom(sv, st, 1, cfg)

getFieldConfigValuesFromStructFrom(sv, st, i, cfg) ==
    IF i > Len(st.fields) THEN Out("ok", cfg)
    ELSE LET ft == st.fields[i]
             f0 == sv.v[i]
             \* f = f.Elem() for a pointer field: the zero Value when nil
             f  == IF ft.Type.kind = "ptr"
                   THEN (IF f0.v = <<>> THEN VNil ELSE f0.v[1]) ELSE f0
             ty == IF ft.Type.kind = "ptr" THEN Elem(ft.Type) ELSE ft.Type
             n  == toSnakeCase(ft.Name, ft)
         IN  IF ~isExported(ft) \/ ft.Name = <<"L", "o", "g">> \/ ~n.ok
             THEN getFieldConfigValuesFromStructFrom(sv, st, i + 1, cfg)
             ELSE LET r == setMapKey(cfg, n.result, f, ty)
                  IN  IF r.st # "ok" THEN r
                      ELSE getFieldConfigValuesFromStructFrom(sv, st, i + 1, r.x)

getFieldConfigValuesFromValue(val0, typ0) ==
    IF val0.k = "invalid" THEN Out("panic", VNil)
    ELSE IF typ0.kind = "ptr" /\ val0.v = <<>> THEN Out("panic", VNil)
    ELSE LET val == IF typ0.kind = "ptr" THEN val0.v[1] ELSE val0
             typ == IF typ0.kind = "ptr" THEN Elem(typ0) ELSE typ0
         IN  CASE typ.kind = "slice" ->
                    getFieldConfigValuesFromSlice(val.v, Elem(typ), 1, <<>>)
               [] typ.kind = "struct" ->
                    LET r == getFieldConfigValuesFromStruct(val, typ, TRUE, <<>>)
                    IN  IF r.st = "ok" THEN Out("ok", V("map", r.x)) ELSE r
               [] typ.kind = "map" ->
                    getFieldConfigValuesFromMap(val.v, Elem(typ), SortStrings(DOMAIN val.v), <<>>)
               [] typ.kind = "bool" -> Out("ok", V("bool", val.v))
               [] typ.kind \in {"int", "int8", "int16", "int32"} -> Out("ok", V("int", val.v))
               [] typ.kind = "int64" ->
                    IF typ.tname \in {"time.Duration", "config.Duration"}
                    THEN Out("ok", V("string", DurationString(val.v)))
                    ELSE IF typ.tname = "config.Size"
                    THEN Out("ok", V("string", SizeMarshalText(val.v)))
                    ELSE Out("ok", V("int", val.v))
               [] typ.kind \in UintKinds -> Out("ok", V("uint", val.v))
               [] typ.kind \in FloatKinds -> Out("ok", V("float", val.v))
               [] typ.kind = "interface" ->
                    \* val.Interface(): the dynamic value, nil when empty
                    Out("ok", IF val.v = <<>> THEN VNil ELSE val.v[1])
               [] typ.kind = "ptr" -> getFieldConfigValuesFromValue(val, typ)
               [] typ.kind = "string" -> Out("ok", V("string", val.v))
               [] OTHER -> Out("ok", V(typ.kind, val.v))

getFieldConfigValuesFromMap(f, elemT, keys, obj) ==
    IF keys = <<>> THEN Out("ok", V("map", obj))
    ELSE LET r == setMapKey(obj, keys[1], f[keys[1]], elemT)
         IN  IF r.st # "ok" THEN r
             ELSE getFieldConfigValuesFromMap(f, elemT, Tail(keys), r.x)

getFieldConfigValuesFromSlice(val, elemT, i, s) ==
    IF i > Len(val) THEN Out("ok", V("slice", s))
    ELSE LET r == getFieldConfigValuesFromValue(val[i], elemT)
         IN  IF r.st # "ok" THEN r
             ELSE getFieldConfigValuesFromSlice(val, elemT, i + 1, Append(s, r.x))

\* setMapKey(obj, key, v) for a value v of static type ty: the map with key set
setMapKey(obj, key, v, ty) ==
    LET r == getFieldConfigValuesFromValue(v, ty)
    IN  IF r.st # "ok" THEN r
        ELSE IF r.x.k \in {"bool", "int", "uint", "float", "map", "slice", "string", "struct"}
        THEN Out("ok", MapPut(obj, key, r.x))
        ELSE Out("panic", obj)

(***************************************************************************)
(* Schema derivation                                                       *)
(***************************************************************************)
FieldTypeUnknown     == ""
FieldTypeString      == "string"
FieldTypeInteger     == "integer"
FieldTypeDuration    == "duration"
FieldTypeSize        == "size"
FieldTypeFloat       == "float"
FieldTypeBool        == "bool"
FieldTypeSlice       == "array"
FieldTypeFieldConfig == "object"
FieldTypeMap         == "map"

Deref(t) == IF t.kind = "ptr" THEN Elem(t) ELSE t

isInternalStructFieldType(t) ==
    t.tname \in {"internal.Duration", "config.Duration", "internal.Size", "config.Size"}

hasSubType(t0) ==
    LET t == Deref(t0)
    IN  CASE t.kind \in {"slice", "map"} -> TRUE
          [] t.kind = "struct" -> ~isInternalStructFieldType(t)
          [] OTHER -> FALSE

\* defined where hasSubType holds: the element type, one pointer removed
getSubTypeType(typ0) ==
    LET typ == Deref(typ0)
    IN  IF typ.kind \in {"slice", "map"} THEN Deref(Elem(typ)) ELSE typ

getFieldType(t0) ==
    LET t == Deref(t0)
    IN  CASE t.kind = "string" -> FieldTypeString
          [] t.kind \in IntKinds \cup UintKinds -> FieldTypeInteger
          [] t.kind \in FloatKinds -> FieldTypeFloat
          [] t.kind = "bool" -> FieldTypeBool
          [] t.kind = "slice" -> FieldTypeSlice
          [] t.kind = "map" -> FieldTypeMap
          [] t.kind = "struct" ->
               IF t.tname \in {"internal.Duration", "config.Duration"} THEN FieldTypeDuration
               ELSE IF t.tname \in {"internal.Size", "config.Size"} THEN FieldTypeSize
               ELSE FieldTypeFieldConfig
          [] OTHER -> FieldTypeUnknown

FieldConfig(type, subType, subFields) ==
    [Type |-> type, SubType |-> subType, SubFields |-> subFields]

\* getFieldConfig over the fields i.. of struct type st, populating cfg (field
\* name -> FieldConfig; Default, Format and Required are left out).  Result:
\* the populated map, or the panic of getFieldTypeFromStructField.
RECURSIVE getFieldConfigFrom(_, _, _)
getFieldConfigFrom(st, i, cfg) ==
    IF i > Len(st.fields) THEN Out("ok", cfg)
    ELSE LET ft     == st.fields[i]
             ftType == Deref(ft.Type)
         IN  IF \/ ToLowerChar(ft.Name[1]) = ft.Name[1]
                \/ TagGet(ft) = <<"-">>
                \/ ftType.kind \in {"func", "interface"}
             THEN getFieldConfigFrom(st, i + 1, cfg)
             ELSE IF ftType.kind = "struct" /\ ~isInternalStructFieldType(ft.Type)
             THEN LET sub == getFieldConfigFrom(getSubTypeType(ft.Type), 1,
                                                IF ft.Anonymous THEN cfg ELSE <<>>)
                  IN  IF sub.st # "ok" THEN sub
                      ELSE IF ft.Anonymous THEN getFieldConfigFrom(st, i + 1, sub.x)
                      ELSE getFieldConfigFrom(st, i + 1,
                               MapPut(cfg, ft.Name,
                                      FieldConfig(FieldTypeFieldConfig,
                                                  getFieldType(getSubTypeType(ft.Type)), sub.x)))
             ELSE IF getFieldType(ft.Type) = FieldTypeUnknown THEN Out("panic", cfg)
             ELSE LET t   == IF hasSubType(ft.Type) THEN getSubTypeType(ft.Type) ELSE ftType
                      sub == IF hasSubType(ft.Type) /\ t.kind = "struct"
                             THEN getFieldConfigFrom(t, 1, <<>>) ELSE Out("ok", <<>>)
                  IN  IF sub.st # "ok" THEN sub
                      ELSE getFieldConfigFrom(st, i + 1,
                               MapPut(cfg, ft.Name,
                                      FieldConfig(getFieldType(ft.Type),
                                                  IF hasSubType(ft.Type) THEN getFieldType(t)
                                                  ELSE FieldTypeUnknown,
                                                  sub.x)))

getFieldConfig(st) == getFieldConfigFrom(st, 1, <<>>)

(***************************************************************************)
(* Plugin configuration types the engine is exercised on                   *)
(***************************************************************************)
\* type Naming struct {
\*     Ab   string `toml:"x"`
\*     Cd   string `toml:"-"`
\*     Ef   int
\*     GhIj bool
\* }
TNaming ==
    TStruct("Naming", << Tagged(<<"A","b">>, <<"x">>, TString),
                         Tagged(<<"C","d">>, <<"-">>, TString),
                         Fld(<<"E","f">>, TInt),
                         Fld(<<"G","h","I","j">>, TBool) >>)
\* type Bs struct { Id string }
\* type Scalars struct {
\*     Bs
\*     To config.Duration
\*     Sz config.Size
\* }
TBs == TStruct("Bs", << Fld(<<"I","d">>, TString) >>)
TScalars ==
    TStruct("Scalars", << Embedded(<<"B","s">>, TBs),
                          Fld(<<"T","o">>, TDuration),
                          Fld(<<"S","z">>, TSize) >>)
\* type Slots struct {
\*     kl int
\*     mn int `toml:"mn"`
\*     Pt *int
\*     Fl float64
\* }
TSlots ==
    TStruct("Slots", << Fld(<<"k","l">>, TInt),
                        Tagged(<<"m","n">>, <<"m","n">>, TInt),
                        Fld(<<"P","t">>, TPtr(TInt)),
                        Fld(<<"F","l">>, TFloat64) >>)
\* type Sub struct { N int8 }
\* type Nested struct {
\*     Ls []string
\*     Mp map[string]string
\*     Sb Sub
\* }
TSub == TStruct("Sub", << Fld(<<"N">>, TInt8) >>)
TNested ==
    TStruct("Nested", << Fld(<<"L","s">>, TSlice(TString)),
                         Fld(<<"M","p">>, TMap(TString)),
                         Fld(<<"S","b">>, TSub) >>)

\* type Loose struct { An []interface{} }
TLoose == TStruct("Loose", << Fld(<<"A","n">>, TSlice(TIface)) >>)
\* type Odd struct { Ch chan int }
TOdd == TStruct("Odd", << Fld(<<"C","h">>, TChan) >>)

TypeUniverse == <<TNaming, TScalars, TSlots, TNested, TLoose, TOdd>>

\* the name/value pairs offered to bind
Pair(name, value) == [name |-> name, value |-> value]
Offered ==
    { Pair(<<"x">>, V("string", "v")), Pair(<<"x">>, V("int", 300)),
      Pair(<<"a","b">>, V("string", "v")),
      Pair(<<"-">>, V("string", "v")),
      Pair(<<>>, V("int", 300)), Pair(<<>>, V("string", "v")),
      Pair(<<"e","f">>, V("int", 300)), Pair(<<"e","f">>, V("float", 2)),
      Pair(<<"g","h","_","i","j">>, V("bool", TRUE)),
      Pair(<<"i","d">>, V("string", "v")),
      Pair(<<"t","o">>, V("string", "30s")), Pair(<<"t","o">>, V("string", "v")),
      Pair(<<"t","o">>, V("string", "1h30m")),
      Pair(<<"s","z">>, V("string", "64MB")),
      Pair(<<"k","l">>, V("int", 300)),
      Pair(<<"m","n">>, V("int", 300)),
      Pair(<<"p","t">>, V("int", 300)),
      Pair(<<"f","l">>, V("float", 2)), Pair(<<"f","l">>, V("int", 300)),
      Pair(<<"l","s">>, V("slice", <<V("string", "v")>>)),
      Pair(<<"l","s">>, V("string", "v")),
      Pair(<<"m","p">>, V("map", (<<"k">> :> V("string", "v")))),
      Pair(<<"s","b">>, V("map", (<<"n">> :> V("int", 300)))) }

\* how many fields a field set offered to bind may hold
MaxFields == 3

RECURSIVE PairSets(_)
PairSets(n) ==
    IF n = 0 THEN {{}}
    ELSE LET P == PairSets(n - 1)
         IN  P \cup { Q \cup {q} : Q \in P,
                      q \in Offered }

FieldSets ==
    { [n \in { q.name : q \in Q } |-> (CHOOSE q \in Q : q.name = n).value] :
        Q \in { Q \in PairSets(MaxFields) : \A q1, q2 \in Q : q1.name = q2.name => q1 = q2 } }

(***************************************************************************)
(* State                                                                   *)
(***************************************************************************)
VARIABLES
    btype,      \* the plugin type under test (index into TypeUniverse)
    bcfg,       \* the field set
    bdest,      \* the destination instance
    bsch,       \* outcome of the last schema derivation
    bres,       \* outcome of the last bind: [st, field]
    bslots,     \* the slot the resolver gave each name of the last bind
    bext,       \* outcome of the last extract
    bphase      \* "fresh", "derived", "bound", "extracted"

bvars == <<btype, bcfg, bdest, bsch, bres, bslots, bext, bphase>>

VARIABLES
    inputs,       \* agent.RunningInputs()
    processors,   \* agent.RunningProcessors(): processors and aggregators
    outputs,      \* agent.RunningOutputs()
    nextID,       \* the next system-generated instance ID
    addHooks,     \* number of hooks registered with OnPluginAdded
    removeHooks,  \* number of hooks registered with OnPluginRemoved
    upd,          \* per caller: the UpdatePlugin call in progress
    lastOp,       \* the last API call: what it did, in order, and what it returned
    ops,          \* number of API calls made
    apiCtx        \* the api's shutdown context: "live" or "done"

lvars == <<inputs, processors, outputs, nextID, addHooks, removeHooks, upd, lastOp, ops,
           apiCtx>>
vars == <<bvars, lvars>>

(***************************************************************************)
(* Plugin registries and the agent's instances                             *)
(***************************************************************************)
\* type names are sequences of tokens; "." is the separator token
RECURSIVE Split(_)
Split(s) ==
    IF \A i \in DOMAIN s : s[i] # "."
    THEN <<s>>
    ELSE LET i == CHOOSE j \in DOMAIN s : s[j] = "." /\ \A h \in 1..(j - 1) : s[h] # "."
         IN  <<SubSeq(s, 1, i - 1)>> \o Split(SubSeq(s, i + 1, Len(s)))

\* a registered plugin: the struct its factory returns and whether it
\* implements parsers.ParserInput, parsers.ParserFuncInput,
\* serializers.SerializerOutput
Registered(type, parser, parserFunc, serializer) ==
    [type |-> type, parser |-> parser, parserFunc |-> parserFunc, serializer |-> serializer]

Inputs      == (<<"exec">> :> Registered(TScalars, TRUE, FALSE, FALSE))
Outputs     == (<<"file">> :> Registered(TScalars, FALSE, FALSE, TRUE))
Processors  == (<<"rename">> :> Registered(TScalars, FALSE, FALSE, FALSE))
Aggregators == (<<"minmax">> :> Registered(TScalars, FALSE, FALSE, FALSE))

\* parsers.Config / serializers.Config: the data format of a plugin
TFormat ==
    TStruct("Config", << Tagged(<<"D","a","t","a","F","o","r","m","a","t">>,
                                <<"d","a","t","a","_","f","o","r","m","a","t">>, TString) >>)
FormatDefault == V("struct", <<V("string", "influx")>>)
KnownFormats == {"influx", "json"}
\* parsers.NewParser / serializers.NewSerializer succeed on a known format
NewFormat(c) == c.v[1].v \in KnownFormats

\* models.Filter and the wrapper configurations models.InputConfig,
\* OutputConfig, ProcessorConfig, AggregatorConfig
TFilter ==
    TStruct("Filter", << Tagged(<<"N","a","m","e","P","a","s","s">>,
                                <<"n","a","m","e","p","a","s","s">>, TSlice(TString)) >>)
TPluginConfig ==
    TStruct("PluginConfig", << Fld(<<"N","a","m","e">>, TString),
                               Fld(<<"F","i","l","t","e","r">>, TFilter) >>)
TAggregatorConfig ==
    TStruct("AggregatorConfig", << Fld(<<"N","a","m","e">>, TString),
                                   Fld(<<"F","i","l","t","e","r">>, TFilter),
                                   Fld(<<"D","e","l","a","y">>, TDuration),
                                   Fld(<<"P","e","r","i","o","d">>, TDuration),
                                   Fld(<<"G","r","a","c","e">>, TDuration) >>)
FilterPath == <<2>>
PluginConfigOf(name) == V("struct", <<V("string", name[1]), Zero(TFilter)>>)
AggregatorConfigOf(name) ==
    V("struct", <<V("string", name[1]), Zero(TFilter), V("int", 100), V("int", 30000), V("int", 0)>>)

\* models.PluginID is text: "" or the 16-digit form of a number
NoID == <<>>
idToString(n) == <<n>>
Uint64(id) == IF id = NoID THEN 0 ELSE id[1]

PluginStateDead == "Dead"

Instance(gen, id, cat, name, plugin, config) ==
    [gen |-> gen, ID |-> id, cat |-> cat, name |-> name, state |-> "Created",
     stopReq |-> FALSE, plugin |-> plugin, config |-> config]

Ev(e, h, id) == [e |-> e, h |-> h, id |-> id]

(***************************************************************************)
(* Hooks                                                                   *)
(***************************************************************************)
\* addPluginHook: every add hook, in registration order, with the ID
addPluginHook(id) == [h \in 1..addHooks |-> Ev("AddHook", h, id)]

\* removePluginHook: every remove hook, in registration order, with the ID
removePluginHook(id) == [h \in 1..removeHooks |-> Ev("RemoveHook", h, id)]

(***************************************************************************)
(* CreatePlugin                                                            *)
(***************************************************************************)
CreateResult(result, errKind, errField, failedField, id, inst, list, trace, newIDs) ==
    [result |-> result, errKind |-> errKind, errField |-> errField,
     failedField |-> failedField, id |-> id, inst |-> inst, list |-> list,
     trace |-> trace, newIDs |-> newIDs]

NotFound == CreateResult("NotFound", "lookup", <<>>, <<>>, NoID, <<>>, "none", <<>>, 0)

\* the return of a failed setFieldConfig, r; withField: the message carries
\* the binding error (and so the field), as "setting field %s" does
BindFailed(r, withField) ==
    CreateResult(IF r.st = "panic" THEN "panic" ELSE "BadRequest", "bind",
                 IF withField THEN r.field ELSE <<>>, r.field, NoID, <<>>, "none", <<>>, 0)

\* parsers.NewParser / serializers.NewSerializer failed
FormatFailed ==
    CreateResult("BadRequest", "parser", <<>>, <<>>, NoID, <<>>, "none", <<>>, 0)

\* (mutation) the instance registered and its add hooks fired before Init fails
InitFailedRegistered(id) ==
    CreateResult("BadRequest", "init", <<>>, <<>>, NoID, <<>>, "none",
                 <<Ev("Add", 0, idToString(id))>> \o addPluginHook(idToString(id))
                   \o <<Ev("Init", 0, idToString(id))>>, 1)

\* Init failed: the instance was made (its ID consumed) and initialized, no more
InitFailed(id) ==
    CreateResult("BadRequest", "init", <<>>, <<>>, NoID, <<>>, "none",
                 <<Ev("Init", 0, idToString(id))>>, 1)

\* (mutation) the execution launched before the instance is registered
RegistersLaunchFirst(id, inst, list) ==
    CreateResult("ok", "none", <<>>, <<>>, idToString(id), <<inst>>, list,
                 <<Ev("Init", 0, idToString(id)), Ev("Run", 0, idToString(id))>>
                   \o addPluginHook(idToString(id))
                   \o <<Ev("Add", 0, idToString(id))>>,
                 1)

\* the tail of every case: Init succeeded, then Add, the add hook, the
\* asynchronous Run, and the return of the ID
Registers(id, inst, list) ==
    CreateResult("ok", "none", <<>>, <<>>, idToString(id), <<inst>>, list,
                 <<Ev("Init", 0, idToString(id)), Ev("Add", 0, idToString(id))>>
                   \o addPluginHook(idToString(id))
                   \o <<Ev("Run", 0, idToString(id))>>,
                 1)

FormatOK == CreateResult("ok", "none", <<>>, <<>>, NoID, <<>>, "none", <<>>, 0)

\* pc: the format configuration bound with the fields; when construct, the
\* parser or serializer is made from it.  FormatOK, or the failure
FormatBound(pc, construct) ==
    IF pc.st # "ok" THEN BindFailed(pc, TRUE)
    ELSE IF construct /\ ~NewFormat(pc.val) THEN FormatFailed
    ELSE FormatOK

BindFormat(config, construct) ==
    FormatBound(setFieldConfig(config, FormatDefault, TFormat), construct)

\* What the four cases of CreatePlugin's switch differ in: the registry
\* entry reg, the wrapper configuration w0 of type wt, the agent's list the
\* instance is added to, whether a bind failure's message carries the binding
\* error (withField) and whether forcedID is read (forced).
CreateCase(cat, name, reg, w0, wt, list, withField, forced) ==
    [cat |-> cat, name |-> name, reg |-> reg, w0 |-> w0, wt |-> wt, list |-> list,
     withField |-> withField, forced |-> forced]

\* the case for pluginType.name, <<>> when the switch or the registry has none
CaseOf(pluginType, name) ==
    CASE pluginType = <<"inputs">> /\ name \in DOMAIN Inputs ->
           <<CreateCase("inputs", name, Inputs[name], PluginConfigOf(name),
                        TPluginConfig, "inputs", TRUE, TRUE)>>
      [] pluginType = <<"outputs">> /\ name \in DOMAIN Outputs ->
           <<CreateCase("outputs", name, Outputs[name], PluginConfigOf(name),
                        TPluginConfig, "outputs", TRUE, FALSE)>>
      [] pluginType = <<"aggregators">> /\ name \in DOMAIN Aggregators ->
           <<CreateCase("aggregators", name, Aggregators[name], AggregatorConfigOf(name),
                        TAggregatorConfig, "processors", FALSE, FALSE)>>
      [] pluginType = <<"processors">> /\ name \in DOMAIN Processors ->
           <<CreateCase("processors", name, Processors[name], PluginConfigOf(name),
                        TPluginConfig, "processors", FALSE, FALSE)>>
      [] OTHER -> <<>>

\* The steps of a case, each taking the outcome of the step before it.
\* sf: the outcome of the outputs' serializer step.  NewRunning*, forcedID,
\* Init, then Registers
SerializerSet(k, id, initOK, plugin, wrapper, sf) ==
    IF sf.result # "ok" THEN sf
    ELSE IF ~initOK THEN InitFailed(id)
    ELSE Registers(id, Instance(nextID, id, k.cat, k.name, plugin, wrapper), k.list)

\* f: the wrapper's Filter bound with the fields
FilterBound(k, config, id, initOK, plugin, wrapper, f) ==
    IF f.st # "ok" THEN BindFailed(f, k.withField)
    ELSE SerializerSet(k, id, initOK, plugin, SetAt(wrapper, FilterPath, f.val),
                       IF k.cat = "outputs" /\ k.reg.serializer
                       THEN BindFormat(config, TRUE) ELSE FormatOK)

\* w: the wrapper configuration bound with the fields
WrapperBound(k, config, id, initOK, plugin, w) ==
    IF w.st # "ok" THEN BindFailed(w, k.withField)
    ELSE FilterBound(k, config, id, initOK, plugin, w.val,
                     setFieldConfig(config, ValueAt(w.val, FilterPath), TFilter))

\* pf: the outcome of the inputs' parser steps
ParserSet(k, config, id, initOK, plugin, pf) ==
    IF pf.result # "ok" THEN pf
    ELSE WrapperBound(k, config, id, initOK, plugin, setFieldConfig(config, k.w0, k.wt))

\* i: the plugin bound with the fields.  An input that takes a parser binds
\* the format configuration and makes the parser; one that takes a parser
\* function binds it and defers the making.
PluginBound(k, config, id, initOK, i) ==
    IF i.st # "ok" THEN BindFailed(i, k.withField)
    ELSE ParserSet(k, config, id, initOK, i.val,
                   IF k.cat = "inputs" /\ (k.reg.parser \/ k.reg.parserFunc)
                   THEN BindFormat(config, k.reg.parser) ELSE FormatOK)

CreateCaseOf(k, config, forcedID, initOK) ==
    PluginBound(k, config,
                IF k.forced /\ Len(forcedID) > 0 THEN Uint64(forcedID) ELSE nextID,
                initOK, setFieldConfig(config, Zero(k.reg.type), k.reg.type))

\* CreatePlugin(cfg, forcedID): cfg = [Name, Config]
CreatePlugin(cfg, forcedID, initOK) ==
    LET parts == Split(cfg.Name)
    IN  IF Len(parts) < 2
        THEN CreateResult("panic", "index", <<>>, <<>>, NoID, <<>>, "none", <<>>, 0)
        ELSE IF CaseOf(parts[1], parts[2]) = <<>> THEN NotFound
        ELSE CreateCaseOf(CaseOf(parts[1], parts[2])[1], cfg.Config, forcedID, initOK)

(***************************************************************************)
(* GetPluginStatus, DeletePlugin, ListRunningPlugins                       *)
(***************************************************************************)
\* index of the first instance of a list with the ID, 0 when there is none
FirstWithID(list, n) ==
    IF \E i \in DOMAIN list : list[i].ID = n
    THEN CHOOSE i \in DOMAIN list : list[i].ID = n /\ \A j \in 1..(i - 1) : list[j].ID # n
    ELSE 0

GetPluginStatusSkipsProcessors(id) ==
    LET n == Uint64(id)
    IN  IF FirstWithID(inputs, n) # 0 THEN inputs[FirstWithID(inputs, n)].state
        ELSE IF FirstWithID(outputs, n) # 0 THEN outputs[FirstWithID(outputs, n)].state
        ELSE PluginStateDead

GetPluginStatus(id) ==
    LET n == Uint64(id)
    IN  IF FirstWithID(inputs, n) # 0 THEN inputs[FirstWithID(inputs, n)].state
        ELSE IF FirstWithID(processors, n) # 0 THEN processors[FirstWithID(processors, n)].state
        ELSE IF FirstWithID(outputs, n) # 0 THEN outputs[FirstWithID(outputs, n)].state
        ELSE PluginStateDead

DeleteResult(result, trace, list, index) ==
    [result |-> result, trace |-> trace, list |-> list, index |-> index]

\* (mutation) the remove hook fired only once the instance is found
DeletePluginHookWhenFound(id) ==
    LET n == Uint64(id)
    IN  IF FirstWithID(inputs, n) # 0
        THEN DeleteResult("ok", removePluginHook(id) \o <<Ev("Stop", 0, id)>>,
                          "inputs", FirstWithID(inputs, n))
        ELSE IF FirstWithID(processors, n) # 0
        THEN DeleteResult("ok", removePluginHook(id) \o <<Ev("Stop", 0, id)>>,
                          "processors", FirstWithID(processors, n))
        ELSE IF FirstWithID(outputs, n) # 0
        THEN DeleteResult("ok", removePluginHook(id) \o <<Ev("Stop", 0, id)>>,
                          "outputs", FirstWithID(outputs, n))
        ELSE DeleteResult("NotFound", <<>>, "none", 0)

\* DeletePlugin(id): the hook, then Stop of the first instance with the ID
DeletePlugin(id) ==
    LET n == Uint64(id)
        h == removePluginHook(id)
    IN  IF FirstWithID(inputs, n) # 0
        THEN DeleteResult("ok", h \o <<Ev("Stop", 0, id)>>, "inputs", FirstWithID(inputs, n))
        ELSE IF FirstWithID(processors, n) # 0
        THEN DeleteResult("ok", h \o <<Ev("Stop", 0, id)>>,
                          "processors", FirstWithID(processors, n))
        ELSE IF FirstWithID(outputs, n) # 0
        THEN DeleteResult("ok", h \o <<Ev("Stop", 0, id)>>, "outputs", FirstWithID(outputs, n))
        ELSE DeleteResult("NotFound", h, "none", 0)

\* the wrapper configuration's type and the plugin's type of instance v
WrapperTypeOf(v) == IF v.cat = "aggregators" THEN TAggregatorConfig ELSE TPluginConfig
PluginTypeOf(v) ==
    CASE v.cat = "inputs" -> Inputs[v.name].type
      [] v.cat = "outputs" -> Outputs[v.name].type
      [] v.cat = "processors" -> Processors[v.name].type
      [] OTHER -> Aggregators[v.name].type

\* c: the snapshot of v's wrapper configuration; the plugin's is merged into it
PluginSnapshot(v, c) ==
    IF c.st = "ok" THEN getFieldConfigValuesFromStruct(v.plugin, PluginTypeOf(v), FALSE, c.x)
    ELSE c

\* the Config of the Plugin descriptor of instance v: both snapshots merged
Descriptor(v) ==
    PluginSnapshot(v, getFieldConfigValuesFromStruct(v.config, WrapperTypeOf(v), FALSE, <<>>))

\* all: the inputs, the processors, the outputs; ds: their descriptors
Listing(all, ds) ==
    IF \E i \in DOMAIN ds : ds[i].st # "ok" THEN Out("panic", <<>>)
    ELSE Out("ok", [i \in DOMAIN ds |-> [ID |-> idToString(all[i].ID), Config |-> ds[i].x]])

ListRunningPlugins ==
    Listing(inputs \o processors \o outputs,
            [i \in DOMAIN (inputs \o processors \o outputs) |->
               Descriptor((inputs \o processors \o outputs)[i])])

(***************************************************************************)
(* The lifecycle manager as a state machine                                *)
(***************************************************************************)
\* API calls the model makes at most
MaxOps == 3
\* instances running at most when the API is asked to create another
MaxInstances == 1
\* hooks of each kind registered at most
MaxHooks == 2
Callers == {1, 2}
\* rounds of a wait loop counted at most after the api's context is done
MaxPolls == 2

TypeNames ==
    { <<"inputs", ".", "exec">>, <<"outputs", ".", "file">>,
      <<"processors", ".", "rename">>, <<"aggregators", ".", "minmax">>,
      <<"bogus", ".", "nothing">>, <<"inputs", ".", "nothing">>, <<"inputs">> }

CreateConfigs ==
    { <<>>,
      (<<"t","o">> :> V("string", "v")),
      (<<"d","a","t","a","_","f","o","r","m","a","t">> :> V("string", "bogus")) }

PluginConfigCreate(name, config) == [Name |-> name, Config |-> config]

IdleUpdate ==
    [pc |-> "idle", id |-> NoID, cfg |-> PluginConfigCreate(<<>>, <<>>),
     err |-> "none", retID |-> NoID, calledCreate |-> FALSE, polls |-> 0]

Op(op, caller, id, name) ==
    [op |-> op, caller |-> caller, id |-> id, name |-> name, result |-> "ok",
     errKind |-> "none", errField |-> <<>>, failedField |-> <<>>, retID |-> NoID,
     trace |-> <<>>, gen |-> 0, status |-> "none", listing |-> <<>>]

LifecycleIdle ==
    /\ inputs = <<>> /\ processors = <<>> /\ outputs = <<>>
    /\ nextID = 1
    /\ addHooks = 0 /\ removeHooks = 0
    /\ upd = [p \in Callers |-> IdleUpdate]
    /\ lastOp = Op("none", 0, NoID, <<>>)
    /\ ops = 0
    /\ apiCtx = "live"

BindIdle ==
    /\ btype = 1 /\ bcfg = <<>> /\ bdest = Zero(TypeUniverse[1])
    /\ bsch = Out("none", <<>>)
    /\ bres = [st |-> "none", field |-> <<>>]
    /\ bslots = <<>>
    /\ bext = Out("none", <<>>)
    /\ bphase = "off"

Init == LifecycleIdle /\ BindIdle

ListOf(l) == CASE l = "inputs" -> inputs [] l = "processors" -> processors [] OTHER -> outputs
Lists == {"inputs", "processors", "outputs"}
\* the three lists with list l replaced by new
SetList(l, new) ==
    /\ inputs' = IF l = "inputs" THEN new ELSE inputs
    /\ processors' = IF l = "processors" THEN new ELSE processors
    /\ outputs' = IF l = "outputs" THEN new ELSE outputs

\* the IDs a caller may name: none, those given out, and the next one
CallerIDs == {NoID} \cup { idToString(n) : n \in 1..nextID }

OnPluginAdded ==
    /\ ops = 0
    /\ addHooks < MaxHooks
    /\ addHooks' = addHooks + 1
    /\ UNCHANGED <<inputs, processors, outputs, nextID, removeHooks, upd, lastOp, ops, apiCtx, bvars>>

OnPluginRemoved ==
    /\ ops = 0
    /\ removeHooks < MaxHooks
    /\ removeHooks' = removeHooks + 1
    /\ UNCHANGED <<inputs, processors, outputs, nextID, addHooks, upd, lastOp, ops, apiCtx, bvars>>

\* the effects of CreatePlugin's outcome r on the agent: AddInput /
\* AddProcessor / AddOutput, and the IDs the New* constructors consumed
ApplyCreate(r) ==
    /\ IF r.result = "ok"
       THEN SetList(r.list, Append(ListOf(r.list), r.inst[1]))
       ELSE UNCHANGED <<inputs, processors, outputs>>
    /\ nextID' = nextID + r.newIDs

CreateOp(caller, cfg, forcedID, r) ==
    [Op("Create", caller, forcedID, cfg.Name) EXCEPT
        !.result = r.result, !.errKind = r.errKind, !.errField = r.errField,
        !.failedField = r.failedField, !.retID = r.id, !.trace = r.trace,
        !.gen = IF r.result = "ok" THEN r.inst[1].gen ELSE 0]

\* CreatePlugin(cfg, "") called through the API
Create ==
    /\ ops < MaxOps
    /\ Len(inputs) + Len(processors) + Len(outputs) < MaxInstances
    /\ \E name \in TypeNames, config \in CreateConfigs, initOK \in BOOLEAN :
         \E r \in {CreatePlugin(PluginConfigCreate(name, config), NoID, initOK)} :
           /\ ApplyCreate(r)
           /\ lastOp' = CreateOp(0, PluginConfigCreate(name, config), NoID, r)
    /\ ops' = ops + 1
    /\ UNCHANGED <<addHooks, removeHooks, upd, apiCtx, bvars>>

\* the effect of agent.StopInput / StopProcessor / StopOutput: the stop is
\* requested, not awaited
ApplyDelete(d) ==
    IF d.result = "ok"
    THEN SetList(d.list, [ListOf(d.list) EXCEPT ![d.index].stopReq = TRUE])
    ELSE UNCHANGED <<inputs, processors, outputs>>

DeleteOp(caller, id, d) ==
    [Op("Delete", caller, id, <<>>) EXCEPT !.result = d.result, !.trace = d.trace,
        !.gen = IF d.result = "ok" THEN ListOf(d.list)[d.index].gen ELSE 0]

\* DeletePlugin(id) called through the API
Delete(id) ==
    /\ ops < MaxOps
    /\ \E d \in {DeletePlugin(id)} :
         /\ ApplyDelete(d)
         /\ lastOp' = DeleteOp(0, id, d)
    /\ ops' = ops + 1
    /\ UNCHANGED <<nextID, addHooks, removeHooks, upd, apiCtx, bvars>>

\* GetPluginStatus(id) called through the API
Status(id) ==
    /\ ops < MaxOps
    /\ lastOp' = [Op("Status", 0, id, <<>>) EXCEPT !.status = GetPluginStatus(id)]
    /\ ops' = ops + 1
    /\ UNCHANGED <<inputs, processors, outputs, nextID, addHooks, removeHooks, upd, apiCtx, bvars>>

\* ListRunningPlugins() called through the API
ListRunning ==
    /\ ops < MaxOps
    /\ ops' = ops + 1
    /\ \E l \in {ListRunningPlugins} :
         lastOp' = [Op("List", 0, NoID, <<>>) EXCEPT
                      !.result = l.st, !.listing = [i \in DOMAIN l.x |-> l.x[i].ID]]
    /\ UNCHANGED <<inputs, processors, outputs, nextID, addHooks, removeHooks, upd, apiCtx, bvars>>

(***************************************************************************)
(* UpdatePlugin                                                            *)
(***************************************************************************)
\* the type name of a running instance, "category.name"
TypeNameOf(v) == <<v.cat, ".", v.name[1]>>
\* callers update an instance with a configuration of its own plugin type
UpdateName(id) ==
    LET d == DeletePlugin(id)
    IN  IF d.result = "ok" THEN TypeNameOf(ListOf(d.list)[d.index])
        ELSE <<"inputs", ".", "exec">>
UpdateConfigs == { <<>>, (<<"t","o">> :> V("string", "v")) }

\* UpdatePlugin(id, cfg) up to its wait: the context is made, DeletePlugin
\* runs, and its error, if any, is returned
UpdateStart(p, id, cfg) ==
    /\ ops < MaxOps
    /\ upd[p].pc \in {"idle", "done"}
    /\ \A q \in Callers : q < p => upd[q].pc # "idle"
    /\ \E d \in {DeletePlugin(id)} :
         /\ ApplyDelete(d)
         /\ lastOp' = DeleteOp(p, id, d)
         /\ upd' = [upd EXCEPT ![p] =
                      [IdleUpdate EXCEPT
                         !.pc = IF d.result = "ok" THEN "waiting" ELSE "done",
                         !.id = id, !.cfg = cfg,
                         !.err = IF d.result = "ok" THEN "none" ELSE d.result]]
    /\ ops' = ops + 1
    /\ UNCHANGED <<nextID, addHooks, removeHooks, apiCtx, bvars>>

\* (mutation) the plugin is recreated although it did not stop in time
UpdateTimeoutRecreates(p) ==
    /\ upd[p].pc = "waiting"
    /\ GetPluginStatus(upd[p].id) # PluginStateDead
    /\ \E r \in {CreatePlugin(upd[p].cfg, upd[p].id, TRUE)} :
         /\ ApplyCreate(r)
         /\ lastOp' = CreateOp(p, upd[p].cfg, upd[p].id, r)
    /\ upd' = [upd EXCEPT ![p].pc = "done", ![p].err = "Timeout", ![p].polls = 0]
    /\ UNCHANGED <<addHooks, removeHooks, ops, apiCtx, bvars>>

\* the wait loop finds the plugin not Dead and the context done (its 30 s
\* have passed): timed out
UpdateTimeout(p) ==
    /\ upd[p].pc = "waiting"
    /\ GetPluginStatus(upd[p].id) # PluginStateDead
    /\ upd' = [upd EXCEPT ![p].pc = "done", ![p].err = "Timeout", ![p].polls = 0]
    /\ UNCHANGED <<inputs, processors, outputs, nextID, addHooks, removeHooks, lastOp, ops, apiCtx, bvars>>

\* the wait loop finds the plugin not Dead and its 100 ms timer fires first:
\* it tries again.  polls, a count local to the call, counts these rounds
\* since the api's context was done.
UpdatePoll(p) ==
    /\ upd[p].pc = "waiting"
    /\ GetPluginStatus(upd[p].id) # PluginStateDead
    /\ apiCtx = "done" => upd[p].polls < MaxPolls
    /\ upd' = [upd EXCEPT ![p].polls = IF apiCtx = "done" THEN @ + 1 ELSE @]
    /\ UNCHANGED <<inputs, processors, outputs, nextID, addHooks, removeHooks, lastOp, ops,
                   apiCtx, bvars>>

\* the context given to newAPI is cancelled by its owner
CtxCancel ==
    /\ apiCtx = "live"
    /\ apiCtx' = "done"
    /\ UNCHANGED <<inputs, processors, outputs, nextID, addHooks, removeHooks, upd, lastOp,
                   ops, bvars>>

\* the wait loop finds the plugin Dead: CreatePlugin(cfg, id), its error returned
UpdateCreate(p) ==
    /\ upd[p].pc = "waiting"
    /\ GetPluginStatus(upd[p].id) = PluginStateDead
    /\ \E initOK \in BOOLEAN :
         \E r \in {CreatePlugin(upd[p].cfg, upd[p].id, initOK)} :
           /\ ApplyCreate(r)
           /\ lastOp' = CreateOp(p, upd[p].cfg, upd[p].id, r)
           /\ upd' = [upd EXCEPT ![p].pc = "done",
                                 ![p].err = IF r.result = "ok" THEN "none" ELSE r.result,
                                 ![p].retID = r.id,
                                 ![p].calledCreate = TRUE,
                                 ![p].polls = 0]
    /\ UNCHANGED <<addHooks, removeHooks, ops, apiCtx, bvars>>

(***************************************************************************)
(* The agent: Created -> Running -> Stopping -> Dead, then removal         *)
(***************************************************************************)
AgentStep(l, i, from, to) ==
    /\ i \in DOMAIN ListOf(l)
    /\ ListOf(l)[i].state \in from
    /\ SetList(l, [ListOf(l) EXCEPT ![i].state = to])
    /\ UNCHANGED <<nextID, addHooks, removeHooks, upd, lastOp, ops, apiCtx, bvars>>

\* the launched Run* starts executing the instance
AgentRun(l, i) == AgentStep(l, i, {"Created"}, "Running")

\* a requested stop takes hold
AgentStopping(l, i) ==
    /\ i \in DOMAIN ListOf(l)
    /\ ListOf(l)[i].stopReq
    /\ AgentStep(l, i, {"Running"}, "Stopping")

AgentDead(l, i) == AgentStep(l, i, {"Stopping"}, "Dead")

\* the agent drops a dead instance from its list
AgentRemove(l, i) ==
    /\ i \in DOMAIN ListOf(l)
    /\ ListOf(l)[i].state = "Dead"
    /\ SetList(l, [j \in 1..(Len(ListOf(l)) - 1) |->
                     IF j < i THEN ListOf(l)[j] ELSE ListOf(l)[j + 1]])
    /\ UNCHANGED <<nextID, addHooks, removeHooks, upd, lastOp, ops, apiCtx, bvars>>

Next ==
    \/ OnPluginAdded
    \/ OnPluginRemoved
    \/ Create
    \/ \E id \in CallerIDs : Delete(id)
    \/ \E id \in CallerIDs : Status(id)
    \/ ListRunning
    \/ \E p \in Callers, id \in CallerIDs, config \in UpdateConfigs :
         UpdateStart(p, id, PluginConfigCreate(UpdateName(id), config))
    \/ \E p \in Callers : UpdateTimeout(p)
    \/ \E p \in Callers : UpdateCreate(p)
    \/ \E p \in Callers : UpdatePoll(p)
    \/ CtxCancel
    \/ \E l \in Lists : \E i \in DOMAIN ListOf(l) : AgentRun(l, i)
    \/ \E l \in Lists : \E i \in DOMAIN ListOf(l) : AgentStopping(l, i)
    \/ \E l \in Lists : \E i \in DOMAIN ListOf(l) : AgentDead(l, i)
    \/ \E l \in Lists : \E i \in DOMAIN ListOf(l) : AgentRemove(l, i)

Spec == Init /\ [][Next]_vars

(***************************************************************************)
(* Properties of the lifecycle manager, checked under Spec                 *)
(***************************************************************************)
\* the instances the agent tracks, in the order the API scans them
Tracked == inputs \o processors \o outputs

\* the positions in Tracked of the instances with the ID
Matches(id) == { i \in DOMAIN Tracked : Tracked[i].ID = Uint64(id) }

FirstOf(S) == CHOOSE i \in S : \A j \in S : i <= j

\* a step in which a call made through the API returned
ApiStep == ops' # ops

\* a step in which CreatePlugin returned, called through the API or by an Update
CreateStep ==
    \/ ApiStep /\ lastOp'.op = "Create"
    \/ \E p \in Callers : upd[p].pc = "waiting" /\ upd'[p].pc = "done" /\ upd'[p].calledCreate

\* C1: an Update whose wait ends while Status(id) is not Dead returns the
\* Timeout error and has not called Create: the agent's lists, the ID
\* generator and the last API outcome (so every hook trace) are as they were,
\* and no ID was returned.
C1_TimeoutNeverCreates ==
    [][\A p \in Callers :
         (/\ upd[p].pc = "waiting"
          /\ upd'[p].pc = "done"
          /\ GetPluginStatus(upd[p].id) # PluginStateDead)
         => /\ upd'[p].err = "Timeout"
            /\ ~upd'[p].calledCreate
            /\ upd'[p].retID = NoID
            /\ inputs' = inputs /\ processors' = processors /\ outputs' = outputs
            /\ nextID' = nextID
            /\ lastOp' = lastOp]_vars

\* an Update has timed out on an instance that is still tracked and not
\* Dead, and its own delete request is the last API outcome
C1_Witness ==
    \E p \in Callers :
        /\ upd[p].pc = "done" /\ upd[p].err = "Timeout"
        /\ GetPluginStatus(upd[p].id) \in {"Created", "Running", "Stopping"}
        /\ lastOp.op = "Delete" /\ lastOp.caller = p /\ lastOp.result = "ok"

\* C2: an Update that returned without error registered a replacement that
\* carries exactly the ID it was given, whatever the plugin's category.
C2_ReplacementCarriesForcedID ==
    \A p \in Callers :
        (upd[p].pc = "done" /\ upd[p].calledCreate /\ upd[p].err = "none")
        => upd[p].retID = upd[p].id

\* C3: no two instances the agent tracks share an ID, in any state any
\* interleaving of API calls and agent steps reaches.
C3_UniqueIDs ==
    \A i, j \in DOMAIN Tracked : i # j => Tracked[i].ID # Tracked[j].ID

\* the category/name pair of a type name is registered
RegisteredName(typeName) ==
    LET parts == Split(typeName)
    IN  /\ Len(parts) >= 2
        /\ \/ parts[1] = <<"inputs">> /\ parts[2] \in DOMAIN Inputs
           \/ parts[1] = <<"outputs">> /\ parts[2] \in DOMAIN Outputs
           \/ parts[1] = <<"processors">> /\ parts[2] \in DOMAIN Processors
           \/ parts[1] = <<"aggregators">> /\ parts[2] \in DOMAIN Aggregators

\* C4: Create with a type name whose category/name pair is not registered
\* (unknown category, unknown name, no "." separator) returns NotFound.
C4_UnregisteredIsNotFound ==
    (lastOp.op = "Create" /\ ~RegisteredName(lastOp.name)) => lastOp.result = "NotFound"

\* C5: Delete(id) fires every registered remove hook once, in order, with
\* id, before anything else and whether or not the instance exists; then it
\* requests the stop of the first instance with the ID and returns success
\* with that instance's state as it was, or returns NotFound with no stop
\* requested and nothing changed when no list holds the ID.
C5_DeleteHooksThenStop ==
    [][(ApiStep /\ lastOp'.op = "Delete")
         => LET id    == lastOp'.id
                hooks == [h \in 1..removeHooks |-> Ev("RemoveHook", h, id)]
            IN  IF Matches(id) = {}
                THEN /\ lastOp'.result = "NotFound"
                     /\ lastOp'.trace = hooks
                     /\ inputs' = inputs /\ processors' = processors /\ outputs' = outputs
                ELSE /\ lastOp'.result = "ok"
                     /\ lastOp'.trace = hooks \o <<Ev("Stop", 0, id)>>
                     /\ Len(inputs') = Len(inputs) /\ Len(processors') = Len(processors)
                     /\ Tracked' = [Tracked EXCEPT ![FirstOf(Matches(id))].stopReq = TRUE]]_vars

\* Delete has returned success, a remove hook was fired, and the instance
\* is still running with its stop requested
C5_Witness ==
    /\ lastOp.op = "Delete" /\ lastOp.result = "ok"
    /\ removeHooks >= 1
    /\ Len(lastOp.trace) = removeHooks + 1
    /\ \E i \in DOMAIN Tracked :
         /\ Tracked[i].ID = Uint64(lastOp.id)
         /\ Tracked[i].stopReq /\ Tracked[i].state = "Running"

\* C6: a successful Create initializes the instance, registers it with the
\* agent, fires every add hook once with the returned ID, and launches the
\* execution, in this order; when it returns the instance is tracked and not
\* yet executing, and ListRunningPlugins describes every tracked instance
\* under its ID.
C6_CreateOrder ==
    [][/\ (CreateStep /\ lastOp'.result = "ok")
         => LET id == lastOp'.retID
            IN  /\ lastOp'.trace =
                     <<Ev("Init", 0, id), Ev("Add", 0, id)>>
                     \o [h \in 1..addHooks |-> Ev("AddHook", h, id)]
                     \o <<Ev("Run", 0, id)>>
                /\ Len(Tracked') = Len(Tracked) + 1
                /\ \E i \in DOMAIN Tracked' :
                     /\ Tracked'[i].ID = Uint64(id)
                     /\ Tracked'[i].gen = lastOp'.gen
                     /\ Tracked'[i].state = "Created"
       /\ (ApiStep /\ lastOp'.op = "List")
         => /\ lastOp'.result = "ok"
            /\ lastOp'.listing = [i \in DOMAIN Tracked |-> idToString(Tracked[i].ID)]]_vars

\* Create has returned an ID after firing an add hook, and the instance is
\* tracked while its execution has not begun
C6_Witness ==
    /\ lastOp.op = "Create" /\ lastOp.result = "ok" /\ lastOp.caller = 0
    /\ addHooks >= 1
    /\ \E i \in DOMAIN Tracked :
         /\ Tracked[i].ID = Uint64(lastOp.retID)
         /\ Tracked[i].gen = lastOp.gen
         /\ Tracked[i].state = "Created"

\* C7: Status(id) returns the state of the first instance with the ID in
\* inputs, then processors, then outputs, and Dead when there is none; it
\* returns no error and changes nothing.
C7_StatusFirstMatch ==
    [][(ApiStep /\ lastOp'.op = "Status")
         => /\ lastOp'.status =
                 IF Matches(lastOp'.id) = {} THEN "Dead"
                 ELSE Tracked[FirstOf(Matches(lastOp'.id))].state
            /\ lastOp'.result = "ok"
            /\ UNCHANGED <<inputs, processors, outputs, nextID, addHooks, removeHooks, upd>>]_vars

\* Status has reported a processor or aggregator as running
C7_Witness ==
    /\ lastOp.op = "Status" /\ lastOp.status = "Running"
    /\ \E i \in DOMAIN processors :
         processors[i].ID = Uint64(lastOp.id) /\ processors[i].state = "Running"

\* C8: a Create that fails because binding the fields fails returns
\* BadRequest with a message that names the failing field, in every category.
C8_BindFailureNamesField ==
    (lastOp.op = "Create" /\ lastOp.errKind = "bind")
    => /\ lastOp.result = "BadRequest"
       /\ lastOp.errField # <<>>
       /\ lastOp.errField = lastOp.failedField

\* C18: a CreatePlugin call that does not return an ID, made through the API
\* or by an Update, leaves the agent's lists as they were, and neither
\* registers the instance, nor fires an add hook, nor launches an execution.
C18_FailedCreateLeavesAgent ==
    [][(CreateStep /\ lastOp'.result # "ok")
         => /\ inputs' = inputs /\ processors' = processors /\ outputs' = outputs
            /\ lastOp'.retID = NoID
            /\ \A i \in DOMAIN lastOp'.trace :
                 lastOp'.trace[i].e \notin {"Add", "AddHook", "Run"}]_vars

\* Create has returned the initialization failure while an add hook is
\* registered and another instance is tracked
C18_Witness ==
    /\ lastOp.op = "Create" /\ lastOp.result = "BadRequest" /\ lastOp.errKind = "init"
    /\ lastOp.trace # <<>>
    /\ addHooks >= 1
    /\ Tracked # <<>>

\* C13: once the api's context is cancelled, an Update waiting for its
\* plugin to be Dead gives up within one round of its wait loop: no Update
\* is still waiting after a second round since the cancellation.
C13_CancelAbortsWait ==
    \A p \in Callers : upd[p].pc = "waiting" => upd[p].polls < MaxPolls

BType == TypeUniverse[btype]

\* a value conforming to a derived FieldConfig
RECURSIVE Conforming(_)
Conforming(fc) ==
    CASE fc.Type = FieldTypeString -> V("string", "v")
      [] fc.Type = FieldTypeInteger -> V("int", 300)
      [] fc.Type = FieldTypeFloat -> V("float", 2)
      [] fc.Type = FieldTypeBool -> V("bool", TRUE)
      [] fc.Type = FieldTypeDuration -> V("string", "30s")
      [] fc.Type = FieldTypeSize -> V("string", "64MB")
      [] fc.Type = FieldTypeSlice ->
           V("slice", <<Conforming(FieldConfig(fc.SubType, FieldTypeUnknown, fc.SubFields))>>)
      [] fc.Type = FieldTypeMap ->
           V("map", (<<"k">> :> Conforming(FieldConfig(fc.SubType, FieldTypeUnknown, fc.SubFields))))
      [] fc.Type = FieldTypeFieldConfig ->
           V("map", [n \in DOMAIN fc.SubFields |-> Conforming(fc.SubFields[n])])
      [] OTHER -> VNil

BindInit ==
    /\ btype \in DOMAIN TypeUniverse
    /\ bcfg \in FieldSets
    /\ bdest = Zero(TypeUniverse[btype])
    /\ bsch = Out("none", <<>>)
    /\ bres = [st |-> "none", field |-> <<>>]
    /\ bslots = <<>>
    /\ bext = Out("none", <<>>)
    /\ bphase = "fresh"
    /\ LifecycleIdle

\* derive the schema of the type and, unless the derivation panicked, build
\* a conforming field set from it
Derive ==
    /\ bphase = "fresh"
    /\ \E sch \in {getFieldConfig(BType)} :
         /\ bsch' = sch
         /\ IF sch.st = "ok"
            THEN /\ \E K \in (SUBSET DOMAIN sch.x) \ {{}} :
                      bcfg' = [n \in K |-> Conforming(sch.x[n])]
                 /\ bphase' = "derived"
            ELSE /\ bcfg' = bcfg
                 /\ bphase' = "deriveFailed"
    /\ UNCHANGED <<btype, bdest, bres, bslots, bext, lvars>>

\* setFieldConfig(bcfg, &dest)
Bind ==
    /\ bphase \in {"fresh", "derived"}
    /\ LET r == setFieldConfig(bcfg, bdest, BType)
       IN  /\ bdest' = r.val
           /\ bres' = [st |-> r.st, field |-> r.field]
    /\ bslots' = [k \in DOMAIN bcfg |-> getFieldByName(BType, k)]
    /\ bphase' = IF bphase = "derived" THEN "boundDerived" ELSE "bound"
    /\ UNCHANGED <<btype, bcfg, bsch, bext, lvars>>

\* getFieldConfigValuesFromStruct(&dest, {})
Extract ==
    /\ bphase \in {"bound", "boundDerived"}
    /\ bres.st = "ok"
    /\ bext' = getFieldConfigValuesFromStruct(bdest, BType, FALSE, <<>>)
    /\ bphase' = IF bphase = "boundDerived" THEN "extractedDerived" ELSE "extracted"
    /\ UNCHANGED <<btype, bcfg, bdest, bsch, bres, bslots, lvars>>

BindNext == Derive \/ Bind \/ Extract

SpecBind == BindInit /\ [][BindNext]_vars

(***************************************************************************)
(* Properties of the binding engine, checked under SpecBind                *)
(***************************************************************************)
\* a duration or size text in its canonical text form, any other value as it is
CanonValue(x) ==
    IF x.k # "string" THEN x
    ELSE IF ParseDuration(x.v).ok THEN V("string", DurationString(ParseDuration(x.v).n))
    ELSE IF ParseStrictBytes(x.v).ok THEN V("string", SizeMarshalText(ParseStrictBytes(x.v).n))
    ELSE x
Canon(fields) == [n \in DOMAIN fields |-> CanonValue(fields[n])]

\* C9: a field set built from the derived schema of a type, bound onto a
\* fresh instance and extracted again, comes back equal to the original
\* (durations and sizes in canonical text form).
C9_RoundTrip ==
    bphase = "extractedDerived" => (bext.st = "ok" /\ Canon(bext.x) = Canon(bcfg))

\* the fields of the bound type that carry the exclusion sentinel
SentinelFields == { i \in DOMAIN BType.fields : BType.fields[i].tag = <<"-">> }

\* C10: an external name resolves to a field with a name override only when
\* it is that override, never to a field whose override is "-"; binding
\* leaves every field whose override is "-" as it was.
C10_OverrideAndSentinel ==
    /\ \A k \in DOMAIN bslots :
         bslots[k].st = "found"
         => LET f == FieldAt(BType, bslots[k].path)
            IN  f.hasTag => (f.tag = k /\ f.tag # <<"-">>)
    /\ \A i \in SentinelFields : bdest.v[i] = Zero(BType.fields[i].Type)

\* the type tags a derived schema may carry as a field's type or element type
EmittedTags ==
    {FieldTypeString, FieldTypeInteger, FieldTypeFloat, FieldTypeBool, FieldTypeDuration,
     FieldTypeSize, FieldTypeSlice, FieldTypeMap, FieldTypeFieldConfig}

\* every field of schema sch, at every level, has a type tag of EmittedTags,
\* and so has the element type of every array, map and object
RECURSIVE TagsKnown(_)
TagsKnown(sch) ==
    \A n \in DOMAIN sch :
        /\ sch[n].Type \in EmittedTags
        /\ sch[n].Type \in {FieldTypeSlice, FieldTypeMap, FieldTypeFieldConfig}
           => sch[n].SubType \in EmittedTags
        /\ TagsKnown(sch[n].SubFields)

\* the fields of struct type st that schema sch describes carry the tag
\* duration exactly when they are durations, size exactly when they are sizes
DomainScalarsTagged(st, sch) ==
    \A i \in DOMAIN st.fields :
        LET ft == st.fields[i]
        IN  ft.Name \in DOMAIN sch
            => /\ (sch[ft.Name].Type = FieldTypeDuration)
                    <=> (Deref(ft.Type).tname \in {"time.Duration", "config.Duration"})
               /\ (sch[ft.Name].Type = FieldTypeSize) <=> (Deref(ft.Type).tname = "config.Size")

\* C11: a derived schema tags a duration field "duration" and a size field
\* "size", gives every other field a tag from string, integer, float, bool,
\* array, map, object, and never carries the unknown tag as a type or as an
\* element type.
C11_SchemaTypeTags ==
    bsch.st = "ok" => (TagsKnown(bsch.x) /\ DomainScalarsTagged(BType, bsch.x))

\* every key of schema sch of struct type st, at every level, is the external
\* name of a field of st: the resolver finds a field for it, and the naming
\* convention, which the extractor emits the field under, gives that key
RECURSIVE KeysExternal(_, _)
KeysExternal(st, sch) ==
    \A n \in DOMAIN sch :
        LET slot == getFieldByName(st, n)
        IN  /\ slot.st = "found"
            /\ toSnakeCase(FieldAt(st, slot.path).Name, FieldAt(st, slot.path))
                 = [result |-> n, ok |-> TRUE]
            /\ sch[n].SubFields # <<>>
               => KeysExternal(getSubTypeType(TypeAt(st, slot.path)), sch[n].SubFields)

\* C12: every key of a derived schema, at the top level and in every
\* subFields level, is the external name of its field: the override if the
\* field declares one, the snake_case form of the declared name otherwise.
C12_SchemaKeysExternal ==
    bsch.st = "ok" => KeysExternal(BType, bsch.x)

\* the names of the last bind that resolved to a slot
Resolved == { j \in DOMAIN bslots : bslots[j].st = "found" }

\* the outcome of coercing the value offered under name j into a fresh slot
\* of the type of j's field
Coerced(j) ==
    setObject(bcfg[j], ValueAt(Zero(BType), bslots[j].path), TypeAt(BType, bslots[j].path), TRUE)

RECURSIVE FieldsNamed(_, _)
FieldsNamed(st, n) ==
    UNION { (IF st.fields[i].Type.kind = "struct" /\ st.fields[i].Anonymous
             THEN FieldsNamed(st.fields[i].Type, n) ELSE {})
            \cup (IF toSnakeCase(st.fields[i].Name, st.fields[i]) = [result |-> n, ok |-> TRUE]
                  THEN {st.fields[i]} ELSE {}) : i \in DOMAIN st.fields }

\* C15: a bind that was offered the external name of a field that cannot be
\* written (an unexported field, named by its override or by convention) does
\* not succeed, and a bind all of whose names are the external name of no
\* field succeeds and leaves the destination as it was.
C15_UnsettableIsError ==
    bphase \in {"bound", "boundDerived"}
    => /\ (\E k \in DOMAIN bcfg : \E ft \in FieldsNamed(BType, k) : ~isExported(ft))
          => bres.st # "ok"
       /\ (\A k \in DOMAIN bcfg : FieldsNamed(BType, k) = {})
          => (bres.st = "ok" /\ bdest = Zero(BType))

\* the kind of the slot a resolved name is coerced into: the pointee's for a
\* pointer field
SlotKind(j) ==
    LET t == TypeAt(BType, bslots[j].path)
    IN  IF t.kind = "ptr" THEN Elem(t).kind ELSE t.kind

\* C16: no bind ends in a crash at a writable slot, whatever the kinds of the
\* offered value and of the slot: it ends in an assignment or a returned
\* error; and an integer value offered for a writable slot of any integer
\* width or of a float kind is assigned, so the bind does not stop there.
C16_CoercionNeverCrashes ==
    bphase \in {"bound", "boundDerived"}
    => /\ bres.st = "panic"
          => ~(bres.field[1] \in Resolved /\ bslots[bres.field[1]].canSet)
       /\ \A j \in Resolved :
            (/\ bslots[j].canSet
             /\ bcfg[j].k = "int"
             /\ SlotKind(j) \in IntKinds \cup UintKinds \cup FloatKinds)
            => (bres.st = "ok" \/ bres.field[1] # j)

\* the external names of the externally visible fields of the destination
\* that hold the zero value of their type
ZeroFieldNames ==
    { toSnakeCase(BType.fields[i].Name, BType.fields[i]).result :
        i \in { i \in DOMAIN BType.fields :
                  /\ isExported(BType.fields[i])
                  /\ toSnakeCase(BType.fields[i].Name, BType.fields[i]).ok
                  /\ bdest.v[i] = Zero(BType.fields[i].Type) } }

\* C17: an extract does not fail, and its snapshot has no entry for a field
\* that holds the zero value of its type, a nil pointer field included.
C17_ExtractOmitsZero ==
    bphase \in {"extracted", "extractedDerived"}
    => /\ bext.st = "ok"
       /\ \A n \in ZeroFieldNames : n \notin DOMAIN bext.x

=============================================================================
